---- MODULE Spec2Model ----
(***************************************************************************)
(* Model of src/main.rs: a rock-paper-scissors strategy-guide scorer.      *)
(*                                                                         *)
(* Two specifications share the module.  Spec is one run of the program    *)
(* (main -> run) over an input text drawn at Init.  SpecUnit applies the   *)
(* pure functions (parse_line, the conversions, beats, part1_game,         *)
(* part2_game) to every line over a bounded alphabet and length.           *)
(*                                                                         *)
(* Characters are one-character strings, a line or a text is a sequence of *)
(* characters, a Result is a record with an ok flag.                       *)
(***************************************************************************)
EXTENDS Integers, Sequences, FiniteSets, TLC

VARIABLES stdin, pc, part, strategies, n, total, result,
          stdout, stderr, exit_status,
          tpc, tline, tres, tbeats, tgame1, tpick, tgame2

runVars == <<stdin, pc, part, strategies, n, total, result,
             stdout, stderr, exit_status>>
unitVars == <<tpc, tline, tres, tbeats, tgame1, tpick, tgame2>>
vars == <<stdin, pc, part, strategies, n, total, result,
          stdout, stderr, exit_status,
          tpc, tline, tres, tbeats, tgame1, tpick, tgame2>>

(* ----- Bounds ----- *)

\* most strategy lines after the mode line in a run
MaxLines == 3
\* longest line handed to parse_line in SpecUnit
MaxLen == 4

(* ----- Result<T, E> ----- *)

Ok(v) == [ok |-> TRUE, val |-> v]
Err(e) == [ok |-> FALSE, err |-> e]

(* ----- Game Logic: hands and rankings ----- *)

Hand == {"Rock", "Paper", "Scissors"}

beats_reversed(h) ==
    CASE h = "Rock" -> "Paper"
      [] h = "Paper" -> "Scissors"
      [] h = "Scissors" -> "Rock"

beats(h) ==
    CASE h = "Rock" -> "Scissors"
      [] h = "Paper" -> "Rock"
      [] h = "Scissors" -> "Paper"

(* ----- Game Logic: points data ----- *)

score_lose_draw_swapped(opponent, me) ==
    (CASE me = "Rock" -> 1
       [] me = "Paper" -> 2
       [] me = "Scissors" -> 3)
    + (IF opponent = me THEN 0
       ELSE IF beats(opponent) = me THEN 3
       ELSE 6)

score(opponent, me) ==
    (CASE me = "Rock" -> 1
       [] me = "Paper" -> 2
       [] me = "Scissors" -> 3)
    + (IF beats(opponent) = me THEN 0
       ELSE IF opponent = me THEN 3
       ELSE 6)

(* ----- Game Logic: part 2 extension ----- *)

Outcome == {"Lose", "Draw", "Win"}

pick_strategy_swapped(opponent, outcome) ==
    CASE outcome = "Draw" -> opponent
      [] outcome = "Lose" -> beats(beats(opponent))
      [] outcome = "Win" -> beats(opponent)

pick_strategy(opponent, outcome) ==
    CASE outcome = "Draw" -> opponent
      [] outcome = "Lose" -> beats(opponent)
      [] outcome = "Win" -> beats(beats(opponent))

(* ----- Parsing ----- *)

Column1 == {"Column1_A", "Column1_B", "Column1_C"}
Column2 == {"Column2_X", "Column2_Y", "Column2_Z"}

Column1_try_from(c) ==
    CASE c = "A" -> Ok("Column1_A")
      [] c = "B" -> Ok("Column1_B")
      [] c = "C" -> Ok("Column1_C")
      [] OTHER -> Err("Invalid char")

Column2_try_from(c) ==
    CASE c = "X" -> Ok("Column2_X")
      [] c = "Y" -> Ok("Column2_Y")
      [] c = "Z" -> Ok("Column2_Z")
      [] OTHER -> Err("Invalid char")

Hand_from_Column1(c) ==
    CASE c = "Column1_A" -> "Rock"
      [] c = "Column1_B" -> "Paper"
      [] c = "Column1_C" -> "Scissors"

Hand_from_Column2(c) ==
    CASE c = "Column2_X" -> "Rock"
      [] c = "Column2_Y" -> "Paper"
      [] c = "Column2_Z" -> "Scissors"

\* chars.next(): the item, if any, and the iterator after it
chars_next(chars) ==
    IF chars = <<>> THEN [some |-> FALSE, rest |-> chars]
    ELSE [some |-> TRUE, item |-> Head(chars), rest |-> Tail(chars)]

parse_line_lax(line) ==
    LET i1 == chars_next(line)
        i2 == chars_next(i1.rest)
        i3 == chars_next(i2.rest)
    IN  IF ~i1.some THEN Err("Missing column 1 char")
        ELSE IF ~Column1_try_from(i1.item).ok
             THEN Err(Column1_try_from(i1.item).err)
        ELSE IF ~(i2.some /\ i2.item = " ")
             THEN Err("Invalid or missing space delimiter")
        ELSE IF ~i3.some THEN Err("Missing column 2 char")
        ELSE IF ~Column2_try_from(i3.item).ok
             THEN Err(Column2_try_from(i3.item).err)
        ELSE Ok(<<Column1_try_from(i1.item).val,
                  Column2_try_from(i3.item).val>>)

parse_line_length_first(line) ==
    LET i1 == chars_next(line)
        i2 == chars_next(i1.rest)
        i3 == chars_next(i2.rest)
        i4 == chars_next(i3.rest)
    IN  IF i4.some THEN Err("Unexpected trailing chars")
        ELSE IF ~i1.some THEN Err("Missing column 1 char")
        ELSE IF ~Column1_try_from(i1.item).ok
             THEN Err(Column1_try_from(i1.item).err)
        ELSE IF ~(i2.some /\ i2.item = " ")
             THEN Err("Invalid or missing space delimiter")
        ELSE IF ~i3.some THEN Err("Missing column 2 char")
        ELSE IF ~Column2_try_from(i3.item).ok
             THEN Err(Column2_try_from(i3.item).err)
        ELSE Ok(<<Column1_try_from(i1.item).val,
                  Column2_try_from(i3.item).val>>)

parse_line(line) ==
    LET i1 == chars_next(line)
        i2 == chars_next(i1.rest)
        i3 == chars_next(i2.rest)
        i4 == chars_next(i3.rest)
    IN  IF ~i1.some THEN Err("Missing column 1 char")
        ELSE IF ~Column1_try_from(i1.item).ok
             THEN Err(Column1_try_from(i1.item).err)
        ELSE IF ~(i2.some /\ i2.item = " ")
             THEN Err("Invalid or missing space delimiter")
        ELSE IF ~i3.some THEN Err("Missing column 2 char")
        ELSE IF ~Column2_try_from(i3.item).ok
             THEN Err(Column2_try_from(i3.item).err)
        ELSE IF i4.some THEN Err("Unexpected trailing chars")
        ELSE Ok(<<Column1_try_from(i1.item).val,
                  Column2_try_from(i3.item).val>>)

(* ----- Parsing: part 2 extension ----- *)

Outcome_from_Column2(c) ==
    CASE c = "Column2_X" -> "Lose"
      [] c = "Column2_Y" -> "Draw"
      [] c = "Column2_Z" -> "Win"

(* ----- Runner ----- *)

part1_game(t) == score(Hand_from_Column1(t[1]), Hand_from_Column2(t[2]))

part2_game(t) ==
    score(Hand_from_Column1(t[1]),
          pick_strategy(Hand_from_Column1(t[1]), Outcome_from_Column2(t[2])))


\* which arm of `match part` is taken
Part1Str == <<"P", "a", "r", "t", " ", "1">>
Part2Str == <<"P", "a", "r", "t", " ", "2">>

arm_trimmed(p) ==
    CASE p = Part1Str \/ p = Part1Str \o <<" ">> -> "part1"
      [] p = Part2Str \/ p = Part2Str \o <<" ">> -> "part2"
      [] OTHER -> "default"

arm_fallthrough(p) ==
    CASE p = Part1Str -> "part1"
      [] OTHER -> "part2"

arm(p) ==
    CASE p = Part1Str -> "part1"
      [] p = Part2Str -> "part2"
      [] OTHER -> "default"

\* the function mapped over the strategies in the arm taken
game_always_part1(a, t) == part1_game(t)

game(a, t) == IF a = "part1" THEN part1_game(t) ELSE part2_game(t)

\* eprintln!("Parsing error on line {}: {}", n + 1, err)
diagnostic_zero_based(k, err) == <<"Parsing error on line ", k, ": ", err>>

diagnostic(k, err) == <<"Parsing error on line ", k + 1, ": ", err>>

\* str::lines(): split after each "\n", then drop the "\n" and one "\r"
\* before it; a final piece without "\n" is a line as it stands
RECURSIVE newline_at(_, _)
newline_at(text, i) ==
    IF i > Len(text) THEN 0
    ELSE IF text[i] = "\n" THEN i
    ELSE newline_at(text, i + 1)

RECURSIVE split_inclusive(_)
split_inclusive(text) ==
    IF text = <<>> THEN <<>>
    ELSE LET k == newline_at(text, 1)
         IN  IF k = 0 THEN <<text>>
             ELSE <<SubSeq(text, 1, k)>>
                  \o split_inclusive(SubSeq(text, k + 1, Len(text)))

strip_line_ending(piece) ==
    IF piece # <<>> /\ piece[Len(piece)] = "\n"
    THEN LET l == SubSeq(piece, 1, Len(piece) - 1)
         IN  IF l # <<>> /\ l[Len(l)] = "\r"
             THEN SubSeq(l, 1, Len(l) - 1)
             ELSE l
    ELSE piece

lines(text) ==
    LET pieces == split_inclusive(text)
    IN  [i \in 1..Len(pieces) |-> strip_line_ending(pieces[i])]

(* ----- Inputs of a run ----- *)

\* first lines as they stand in the text, before the "\n"
ModeSegments ==
    { Part1Str, Part2Str, Part2Str \o <<"\r">>,
      <<"P", "a", "r", "t", " ", "3">>,
      <<"p", "a", "r", "t", " ", "1">>,
      Part1Str \o <<" ">> }

\* strategy lines: two that parse and one for each parse_line error
RunLines ==
    { <<"A", " ", "Y">>, <<"B", " ", "X">>,
      <<>>, <<"Q", " ", "Q">>, <<"A", "Y">>, <<"A", " ">>,
      <<"A", " ", "Y", " ">> }

LineSeqs == UNION { [1..k -> RunLines] : k \in 0..MaxLines }

RECURSIVE unlines(_)
unlines(ls) ==
    IF ls = <<>> THEN <<>>
    ELSE Head(ls) \o <<"\n">> \o unlines(Tail(ls))

Texts == {<<>>} \cup { unlines(<<m>> \o ls) : m \in ModeSegments, ls \in LineSeqs }

Stdin ==
    {[readable |-> FALSE, text |-> <<>>]}
    \cup { [readable |-> TRUE, text |-> t] : t \in Texts }

\* run() has not returned yet
NoResult == [ok |-> FALSE, err |-> "(run has not returned)"]

\* beats has not been applied yet
NoBeats == [h |-> "", b1 |-> "", b2 |-> "", b3 |-> "", me |-> "", me_b1 |-> ""]

UnitIdle ==
    /\ tpc = "off"
    /\ tline = <<>>
    /\ tres = NoResult
    /\ tbeats = NoBeats
    /\ tgame1 = 0
    /\ tpick = ""
    /\ tgame2 = 0

Init ==
    /\ stdin \in Stdin
    /\ pc = "start"
    /\ part = <<>>
    /\ strategies = <<>>
    /\ n = 0
    /\ total = 0
    /\ result = NoResult
    /\ stdout = <<>>
    /\ stderr = <<>>
    /\ exit_status = "running"
    /\ UnitIdle

(* ----- run() ----- *)

\* io::stdin().read_to_string(&mut strategy_guide).map_err(..)?
ReadToString ==
    /\ pc = "start"
    /\ IF stdin.readable
       THEN /\ pc' = "first"
            /\ UNCHANGED result
       ELSE /\ result' = Err("io error")
            /\ pc' = "returned"
    /\ UNCHANGED <<stdin, part, strategies, n, total, stdout, stderr, exit_status>>
    /\ UNCHANGED unitVars

\* let part = lines.next().ok_or("Missing data on first line")?;
\* then `strategies` is built over the rest; nothing of it runs yet
FirstLine ==
    /\ pc = "first"
    /\ LET ls == lines(stdin.text)
       IN  IF ls = <<>>
           THEN /\ result' = Err("Missing data on first line")
                /\ pc' = "returned"
                /\ UNCHANGED <<part, strategies>>
           ELSE /\ part' = Head(ls)
                /\ strategies' = Tail(ls)
                /\ pc' = "match"
                /\ UNCHANGED result
    /\ UNCHANGED <<stdin, n, total, stdout, stderr, exit_status>>
    /\ UNCHANGED unitVars

\* match part { "Part 1" => .., "Part 2" => .., _ => Err(..) }
MatchPart ==
    /\ pc = "match"
    /\ IF arm(part) = "default"
       THEN /\ result' = Err("Malformed input")
            /\ pc' = "returned"
       ELSE /\ pc' = "sum"
            /\ UNCHANGED result
    /\ UNCHANGED <<stdin, part, strategies, n, total, stdout, stderr, exit_status>>
    /\ UNCHANGED unitVars

\* sum() pulls one line through enumerate, filter_map and map
SumNext ==
    /\ pc = "sum"
    /\ strategies # <<>>
    /\ LET r == parse_line(Head(strategies))
       IN  IF r.ok
           THEN /\ total' = total + game(arm(part), r.val)
                /\ UNCHANGED stderr
           ELSE /\ stderr' = Append(stderr, diagnostic(n, r.err))
                /\ UNCHANGED total
    /\ n' = n + 1
    /\ strategies' = Tail(strategies)
    /\ UNCHANGED <<stdin, pc, part, result, stdout, exit_status>>
    /\ UNCHANGED unitVars

\* the iterator is exhausted: Ok(sum)
SumDone ==
    /\ pc = "sum"
    /\ strategies = <<>>
    /\ result' = Ok(total)
    /\ pc' = "returned"
    /\ UNCHANGED <<stdin, part, strategies, n, total, stdout, stderr, exit_status>>
    /\ UNCHANGED unitVars

(* ----- main() ----- *)

\* main returns (): the process ends with status 0 in both arms
Main ==
    /\ pc = "returned"
    /\ IF result.ok
       THEN /\ stdout' = Append(stdout, result.val)
            /\ UNCHANGED stderr
       ELSE /\ stderr' = Append(stderr, <<result.err>>)
            /\ UNCHANGED stdout
    /\ exit_status' = 0
    /\ pc' = "exited"
    /\ UNCHANGED <<stdin, part, strategies, n, total, result>>
    /\ UNCHANGED unitVars

Next ==
    \/ ReadToString
    \/ FirstLine
    \/ MatchPart
    \/ SumNext
    \/ SumDone
    \/ Main

Spec == Init /\ [][Next]_vars


(* ----- The pure functions applied to one line (mod tests) ----- *)

Alphabet == {"A", "B", "C", "X", "Y", "Z", " ", "Q"}

AllLines == UNION { [1..k -> Alphabet] : k \in 0..MaxLen }

RunIdle ==
    /\ stdin = [readable |-> FALSE, text |-> <<>>]
    /\ pc = "off"
    /\ part = <<>>
    /\ strategies = <<>>
    /\ n = 0
    /\ total = 0
    /\ result = NoResult
    /\ stdout = <<>>
    /\ stderr = <<>>
    /\ exit_status = "running"

UnitInit ==
    /\ RunIdle
    /\ tpc = "call"
    /\ tline \in AllLines
    /\ tres = NoResult
    /\ tbeats = NoBeats
    /\ tgame1 = 0
    /\ tpick = ""
    /\ tgame2 = 0

TestParseLine ==
    /\ tpc = "call"
    /\ tres' = parse_line(tline)
    /\ tpc' = "parsed"
    /\ UNCHANGED <<tline, tbeats, tgame1, tpick, tgame2>>
    /\ UNCHANGED runVars

\* beats applied one, two and three times to the opponent's hand,
\* and once to my hand
TestBeats ==
    /\ tpc = "parsed"
    /\ tres.ok
    /\ LET h == Hand_from_Column1(tres.val[1])
           m == Hand_from_Column2(tres.val[2])
       IN  tbeats' = [h |-> h, b1 |-> beats(h), b2 |-> beats(beats(h)),
                      b3 |-> beats(beats(beats(h))),
                      me |-> m, me_b1 |-> beats(m)]
    /\ tpc' = "beats"
    /\ UNCHANGED <<tline, tres, tgame1, tpick, tgame2>>
    /\ UNCHANGED runVars

TestPart1Game ==
    /\ tpc = "beats"
    /\ tgame1' = part1_game(tres.val)
    /\ tpc' = "part1"
    /\ UNCHANGED <<tline, tres, tbeats, tpick, tgame2>>
    /\ UNCHANGED runVars

TestPart2Game ==
    /\ tpc = "part1"
    /\ tpick' = pick_strategy(Hand_from_Column1(tres.val[1]),
                              Outcome_from_Column2(tres.val[2]))
    /\ tgame2' = part2_game(tres.val)
    /\ tpc' = "part2"
    /\ UNCHANGED <<tline, tres, tbeats, tgame1>>
    /\ UNCHANGED runVars

UnitNext ==
    \/ TestParseLine
    \/ TestBeats
    \/ TestPart1Game
    \/ TestPart2Game

SpecUnit == UnitInit /\ [][UnitNext]_vars


(* ----- Properties of a run ----- *)

InputLines == lines(stdin.text)

ModePresent == stdin.readable /\ InputLines # <<>>

ModeValid == ModePresent /\ InputLines[1] \in {Part1Str, Part2Str}

Returned == pc \in {"returned", "exited"}

\* the sum of the scores of the lines of ls that parse: part1_game when
\* p = 1, part2_game when p = 2
RECURSIVE SumOfParsed(_, _)
SumOfParsed(ls, p) ==
    IF ls = <<>> THEN 0
    ELSE LET r == parse_line(Head(ls))
         IN  (IF ~r.ok THEN 0
              ELSE IF p = 1 THEN part1_game(r.val)
              ELSE part2_game(r.val))
             + SumOfParsed(Tail(ls), p)

ModeNumber == IF InputLines[1] = Part1Str THEN 1 ELSE 2

\* C1: with first line "Part 1" or "Part 2", run() returns the sum of the
\* mode-selected score over exactly the following lines that parse; every
\* line is attempted, a line that fails adds nothing and stops nothing.
C1_TotalIsSumOfParsedLines ==
    /\ (pc = "sum" /\ ModeValid) =>
          total = SumOfParsed(SubSeq(InputLines, 2, n + 1), ModeNumber)
    /\ (Returned /\ ModeValid) =>
          /\ result = Ok(SumOfParsed(Tail(InputLines), ModeNumber))
          /\ n = Len(InputLines) - 1
          /\ strategies = <<>>
    /\ (pc = "exited" /\ ModeValid) =>
          stdout = <<SumOfParsed(Tail(InputLines), ModeNumber)>>

\* "Part 1", "A Y", "Q Q", "B X": the line after the bad one is scored
C1_Witness ==
    /\ pc = "exited"
    /\ stdin.readable
    /\ InputLines = <<Part1Str, <<"A", " ", "Y">>, <<"Q", " ", "Q">>,
                      <<"B", " ", "X">> >>
    /\ result = Ok(9)
    /\ stdout = <<9>>

\* C2: when the input has no first line, or a first line other than exactly
\* "Part 1" / "Part 2", run() ends with an error whatever follows and no
\* total is printed on standard output.
C2_BadModeIsFatal ==
    (stdin.readable /\ ~ModeValid) =>
        /\ (Returned => ~result.ok)
        /\ stdout = <<>>
        /\ pc # "sum"

C2_Witness ==
    /\ pc = "exited"
    /\ ModePresent
    /\ InputLines[1] = Part1Str \o <<" ">>
    /\ Len(InputLines) >= 2
    /\ parse_line(InputLines[2]).ok
    /\ ~result.ok
    /\ stdout = <<>>

Fatal == ~stdin.readable \/ ~ModeValid

\* C3: the exit status is a failure status in every fatal case (unreadable
\* input, missing mode line, mode line not "Part 1"/"Part 2") and 0 in every
\* other run.
C3_ExitStatusReportsFatal ==
    pc = "exited" => (Fatal <=> exit_status # 0)

\* C8: with a valid mode line, each strategy line that fails to parse gives
\* exactly one diagnostic carrying its 1-based position among the lines after
\* the mode line and parse_line's error; lines that parse give none; the
\* diagnostics are in input order.
ExpectedDiagnostics(ls) ==
    LET idx == [i \in 1..Len(ls) |-> i]
        bad == SelectSeq(idx, LAMBDA i : ~parse_line(ls[i]).ok)
    IN  [k \in 1..Len(bad) |->
            <<"Parsing error on line ", bad[k], ": ", parse_line(ls[bad[k]]).err>>]

C8_OneDiagnosticPerBadLine ==
    /\ (pc = "sum" /\ ModeValid) =>
          stderr = ExpectedDiagnostics(SubSeq(InputLines, 2, n + 1))
    /\ (Returned /\ ModeValid) =>
          stderr = ExpectedDiagnostics(Tail(InputLines))

\* bad, good, bad: the diagnostics are numbered 1 and 3
C8_Witness ==
    /\ pc = "exited"
    /\ ModeValid
    /\ Len(InputLines) = 4
    /\ parse_line(InputLines[3]).ok
    /\ stderr = << <<"Parsing error on line ", 1, ": ", "Missing column 1 char">>,
                   <<"Parsing error on line ", 3, ": ", "Unexpected trailing chars">> >>

\* C10: with a mode line that is not "Part 1"/"Part 2", run() returns
\* "Malformed input" and no strategy line is ever parsed: no "Parsing error
\* on line" diagnostic is written, even for malformed lines.
C10_BadModeParsesNothing ==
    (ModePresent /\ ~ModeValid) =>
        /\ n = 0
        /\ total = 0
        /\ pc # "sum"
        /\ (pc = "match" \/ Returned) => strategies = Tail(InputLines)
        /\ Returned => result = Err("Malformed input")
        /\ stderr = IF pc = "exited" THEN << <<"Malformed input">> >> ELSE <<>>

C10_Witness ==
    /\ pc = "exited"
    /\ ModePresent
    /\ InputLines[1] = <<"P", "a", "r", "t", " ", "3">>
    /\ Len(InputLines) = 3
    /\ ~parse_line(InputLines[2]).ok
    /\ ~parse_line(InputLines[3]).ok
    /\ stderr = << <<"Malformed input">> >>


(* ----- Properties of the pure functions ----- *)

Parsed == tpc # "call"

IsCol1Char(c) == c \in {"A", "B", "C"}
IsCol2Char(c) == c \in {"X", "Y", "Z"}

\* C4: parse_line reports the first check that fails, left to right: empty
\* line; first char outside A,B,C; second char absent or not a space; third
\* char absent; third char outside X,Y,Z; a fourth char.  A later defect is
\* never reported when an earlier one is present.
C4_FirstFailureWins ==
    Parsed =>
        LET len == Len(tline)
            ok1 == len >= 1 /\ IsCol1Char(tline[1])
            ok2 == ok1 /\ len >= 2 /\ tline[2] = " "
            ok3 == ok2 /\ len >= 3 /\ IsCol2Char(tline[3])
        IN  /\ len = 0 => tres = Err("Missing column 1 char")
            /\ (len >= 1 /\ ~IsCol1Char(tline[1])) => tres = Err("Invalid char")
            /\ (ok1 /\ ~ok2) => tres = Err("Invalid or missing space delimiter")
            /\ (ok2 /\ len = 2) => tres = Err("Missing column 2 char")
            /\ (ok2 /\ len >= 3 /\ ~IsCol2Char(tline[3])) => tres = Err("Invalid char")
            /\ (ok3 /\ len >= 4) => tres = Err("Unexpected trailing chars")

\* "Q Q ": bad first char, bad third char and a trailing char; only the
\* first is reported
C4_Witness ==
    /\ tpc = "parsed"
    /\ tline = <<"Q", " ", "Q", " ">>
    /\ tres = Err("Invalid char")

NameOfCol1(c) ==
    CASE c = "A" -> "Column1_A" [] c = "B" -> "Column1_B" [] c = "C" -> "Column1_C"

NameOfCol2(c) ==
    CASE c = "X" -> "Column2_X" [] c = "Y" -> "Column2_Y" [] c = "Z" -> "Column2_Z"

NineLines == { <<c1, " ", c2>> : c1 \in {"A", "B", "C"}, c2 \in {"X", "Y", "Z"} }

\* C5: parse_line succeeds on exactly the nine lines c1 + space + c2 with c1
\* in A,B,C and c2 in X,Y,Z, returning the codes the two characters name; on
\* every other line it returns an error and no pair.
C5_ParsesExactlyNineLines ==
    Parsed =>
        /\ tres.ok <=> tline \in NineLines
        /\ tline \in NineLines =>
              tres = [ok |-> TRUE, val |-> <<NameOfCol1(tline[1]), NameOfCol2(tline[3])>>]
        /\ tline \notin NineLines => DOMAIN tres = {"ok", "err"}

C5_Witness ==
    /\ tpc = "parsed"
    /\ tline = <<"C", " ", "X">>
    /\ tres = Ok(<<"Column1_C", "Column2_X">>)

HandOfChar(c) ==
    CASE c \in {"A", "X"} -> "Rock"
      [] c \in {"B", "Y"} -> "Paper"
      [] c \in {"C", "Z"} -> "Scissors"

Part1Table(opponent, me) ==
    CASE opponent = "Rock" /\ me = "Rock" -> 4
      [] opponent = "Rock" /\ me = "Paper" -> 8
      [] opponent = "Rock" /\ me = "Scissors" -> 3
      [] opponent = "Paper" /\ me = "Rock" -> 1
      [] opponent = "Paper" /\ me = "Paper" -> 5
      [] opponent = "Paper" /\ me = "Scissors" -> 9
      [] opponent = "Scissors" /\ me = "Rock" -> 7
      [] opponent = "Scissors" /\ me = "Paper" -> 2
      [] opponent = "Scissors" /\ me = "Scissors" -> 6

Scored1 == tpc \in {"part1", "part2"}

\* C6: part1_game gives the table value for the hands the two characters
\* name (A,X Rock; B,Y Paper; C,Z Scissors); every result is in 1..9 and no
\* two pairs share a result.
C6_Part1Table ==
    /\ Scored1 =>
          /\ tgame1 = Part1Table(HandOfChar(tline[1]), HandOfChar(tline[3]))
          /\ tgame1 \in 1..9
    /\ \A p, q \in Column1 \X Column2 :
          part1_game(p) = part1_game(q) => p = q

C6_Witness ==
    /\ tpc = "part1"
    /\ tline = <<"B", " ", "Z">>
    /\ tgame1 = 9

BasePoints(h) ==
    CASE h = "Rock" -> 1 [] h = "Paper" -> 2 [] h = "Scissors" -> 3

OutcomePoints(c) ==
    CASE c = "X" -> 0 [] c = "Y" -> 3 [] c = "Z" -> 6

\* the hand that gives the outcome col2 asks for against opponent, read off
\* the rules: Rock beats Scissors, Paper beats Rock, Scissors beats Paper
HandAchieving(opponent, c) ==
    CASE c = "Y" -> opponent
      [] c = "X" /\ opponent = "Rock" -> "Scissors"
      [] c = "X" /\ opponent = "Paper" -> "Rock"
      [] c = "X" /\ opponent = "Scissors" -> "Paper"
      [] c = "Z" /\ opponent = "Rock" -> "Paper"
      [] c = "Z" /\ opponent = "Paper" -> "Scissors"
      [] c = "Z" /\ opponent = "Scissors" -> "Rock"

\* C7: in Part 2 the hand pick_strategy chooses achieves the outcome col2
\* asks for: the outcome part of the score is 0 for X, 3 for Y, 6 for Z, and
\* the score is that plus the base points of the chosen hand.
C7_Part2AchievesOutcome ==
    tpc = "part2" =>
        /\ tpick = HandAchieving(HandOfChar(tline[1]), tline[3])
        /\ tgame2 - BasePoints(tpick) = OutcomePoints(tline[3])
        /\ tgame2 = Part1Table(HandOfChar(tline[1]), tpick)

\* "A X": lose against Rock by playing Scissors, 3 + 0
C7_Witness ==
    /\ tpc = "part2"
    /\ tline = <<"A", " ", "X">>
    /\ tpick = "Scissors"
    /\ tgame2 = 3

BeatsApplied == tpc \in {"beats", "part1", "part2"}

\* how many of the listed conditions hold
CountTrue(bs) == Cardinality({ i \in 1..Len(bs) : bs[i] })

\* C9: beats is a cycle of period three without a fixed point (Rock beats
\* Scissors, Paper beats Rock, Scissors beats Paper), so of "opponent beats
\* me", "opponent equals me", "I beat opponent" exactly one holds.
C9_BeatsIsThreeCycle ==
    BeatsApplied =>
        /\ tbeats.b3 = tbeats.h
        /\ tbeats.b1 # tbeats.h
        /\ tbeats.h = "Rock" => tbeats.b1 = "Scissors"
        /\ tbeats.h = "Paper" => tbeats.b1 = "Rock"
        /\ tbeats.h = "Scissors" => tbeats.b1 = "Paper"
        /\ CountTrue(<<tbeats.b1 = tbeats.me,
                       tbeats.h = tbeats.me,
                       tbeats.me_b1 = tbeats.h>>) = 1

\* "C X": Scissors against Rock, I beat the opponent
C9_Witness ==
    /\ tpc = "beats"
    /\ tbeats.h = "Scissors"
    /\ tbeats.b1 = "Paper"
    /\ tbeats.b2 = "Rock"
    /\ tbeats.me = "Rock"
    /\ tbeats.me_b1 = "Scissors"

====
